---- MODULE Spec2Model ----
(***************************************************************************)
(* A model of nerf-implementation.ipynb: the stratified ray sampler and    *)
(* the emission-absorption compositor of render_rays, the data flow and    *)
(* tensor shapes of NerfModel.forward, the chunked renderer test() and the *)
(* epoch / mini-batch loop of train().                                     *)
(*                                                                         *)
(* Real numbers are exact rationals <<n, d>> (d > 0, lowest terms).  The   *)
(* exponential of line 155 is not rational: 1 - exp(-x) is a choice among  *)
(* the grid values its sign and range allow.                               *)
(***************************************************************************)
EXTENDS Integers, Sequences, FiniteSets

VARIABLES ray, fwd, shp, tst, trn

vars == <<ray, fwd, shp, tst, trn>>

(***************************************************************************)
(* Bounds of the model.                                                    *)
(***************************************************************************)
MaxBins == 3        \* nb_bins: 2..MaxBins for the sampler, else 1..MaxBins
MaxDepth == 4       \* hn < hf range over 0..MaxDepth
MaxRows == 5        \* rows of a ray batch: 1..MaxRows
MaxFwdRows == 2     \* rows of a batch given to NerfModel.forward directly
MaxH == 3           \* image height H: 1..MaxH
MaxW == 2           \* image width W: 1..MaxW
MaxChunk == 4       \* chunk_size: 1..MaxChunk
MaxImages == 2      \* images in the testing dataset; img_index < MaxImages
NbBatches == 2      \* mini-batches the data loader yields per epoch

(***************************************************************************)
(* The program's constants.                                                *)
(***************************************************************************)
MainHn == 2         \* train(..., hn=2, ...)
MainHf == 6         \* train(..., hf=6, ...)
PosEncCoordDim == 10        \* posEncCoord_dim=10
PosEncDirectionDim == 4     \* posEncDirection_dim=4
NbEpochs == 16              \* train(..., nb_epochs=16, ...)
NbTestImages == 200         \* for img_index in range(200)

Idle == [pc |-> "idle"]

(***************************************************************************)
(* Exact rational arithmetic.                                              *)
(***************************************************************************)
Abs(n) == IF n < 0 THEN -n ELSE n

RECURSIVE GCD(_, _)
GCD(a, b) == IF b = 0 THEN a ELSE GCD(b, a % b)

Norm(n, d) == LET g == GCD(Abs(n), d) IN <<n \div g, d \div g>>

Zero == <<0, 1>>
One == <<1, 1>>
RAdd(x, y) == Norm(x[1] * y[2] + y[1] * x[2], x[2] * y[2])
RSub(x, y) == Norm(x[1] * y[2] - y[1] * x[2], x[2] * y[2])
RMul(x, y) == Norm(x[1] * y[1], x[2] * y[2])
RHalf(x) == Norm(x[1], 2 * x[2])
RLt(x, y) == x[1] * y[2] < y[1] * x[2]
RLe(x, y) == x[1] * y[2] <= y[1] * x[2]

RECURSIVE RSum(_)
RSum(s) == IF s = <<>> THEN Zero ELSE RAdd(s[1], RSum(Tail(s)))

RECURSIVE RProd(_)
RProd(s) == IF s = <<>> THEN One ELSE RMul(s[1], RProd(Tail(s)))

(***************************************************************************)
(* render_rays, lines 127-138: stratified sampling of one ray.             *)
(***************************************************************************)
\* torch.linspace(hn, hf, nb_bins): nb_bins evenly spaced base depths
Linspace(a, b, n) ==
    [i \in 1..n |-> IF n = 1 THEN a
                    ELSE RAdd(a, RMul(Norm(i - 1, n - 1), RSub(b, a)))]

\* mid = (t[:, :-1] + t[:, 1:]) / 2.
Mid(t) == [i \in 1..(Len(t) - 1) |-> RHalf(RAdd(t[i], t[i + 1]))]

\* lower = torch.cat((t[:, :1], mid), -1)
Lower(t) == <<t[1]>> \o Mid(t)

\* a sampler whose bins overlap: bin i would reach up to base depth i+1
UpperOverlapping(t) == Tail(t) \o <<t[Len(t)]>>

\* upper = torch.cat((mid, t[:, -1:]), -1)
Upper(t) == Mid(t) \o <<t[Len(t)]>>

\* t = lower + (upper - lower) * u
Jitter(lower, upper, u) ==
    [i \in 1..Len(lower) |->
        RAdd(lower[i], RMul(RSub(upper[i], lower[i]), u[i]))]

\* A delta is m * 10^e: a depth difference has e = 0, the sentinel is 1e10.
Finite(r) == [m |-> r, e |-> 0]
Sentinel == [m |-> One, e |-> 10]

\* a delta taken backwards: depth_i - depth_{i+1}
DeltaReversed(t) ==
    [i \in 1..Len(t) |-> IF i < Len(t) THEN Finite(RSub(t[i], t[i + 1]))
                         ELSE Sentinel]

\* delta = torch.cat((t[:, 1:] - t[:, :-1], tensor([1e10])), -1)
Delta(t) ==
    [i \in 1..Len(t) |-> IF i < Len(t) THEN Finite(RSub(t[i + 1], t[i]))
                         ELSE Sentinel]

\* torch.rand: one draw in [0,1) per bin
JitterValues == {Zero, Norm(3, 4)}
JitterDraws(n) == [1..n -> JitterValues]

Depths == {<<a, b>> \in (0..MaxDepth) \X (0..MaxDepth) : a < b}

RayStart(a, b, n) ==
    [pc |-> "start", hn |-> Norm(a, 1), hf |-> Norm(b, 1), nb_bins |-> n]

\* lines 127-138
Sample ==
    /\ ray.pc = "start"
    /\ \E u \in JitterDraws(ray.nb_bins) :
         LET base == Linspace(ray.hn, ray.hf, ray.nb_bins)
             t == Jitter(Lower(base), Upper(base), u)
         IN ray' = [pc |-> "sampled", hn |-> ray.hn, hf |-> ray.hf,
                    nb_bins |-> ray.nb_bins, u |-> u, t |-> t,
                    delta |-> Delta(t)]
    /\ UNCHANGED <<fwd, shp, tst, trn>>

SampleInit ==
    /\ ray \in {RayStart(p[1], p[2], n) : p \in Depths, n \in 2..MaxBins}
    /\ fwd = Idle /\ shp = Idle /\ tst = Idle /\ trn = Idle

SampleNext == Sample

SampleSpec == SampleInit /\ [][SampleNext]_vars

(***************************************************************************)
(* render_rays, lines 149-163: the network's outputs along the ray and the *)
(* emission-absorption compositing of one ray.                             *)
(***************************************************************************)
\* sigma = relu(...) >= 0 (line 89)
SigmaValues == {Zero, One}

\* c = sigmoid(...), each channel in [0,1] (line 49): black, and an RGB
\* colour whose channels are 1, 1/2 and 0
Palette == {<<Zero, Zero, Zero>>, <<One, Norm(1, 2), Zero>>}

\* lines 149-151: colours and densities of the nb_bins samples of the ray
Query ==
    /\ ray.pc = "sampled"
    /\ \E sigma \in [1..ray.nb_bins -> SigmaValues],
          colors \in [1..ray.nb_bins -> Palette] :
         ray' = [pc |-> "queried", hn |-> ray.hn, hf |-> ray.hf,
                 nb_bins |-> ray.nb_bins, u |-> ray.u, t |-> ray.t,
                 delta |-> ray.delta, sigma |-> sigma, colors |-> colors]
    /\ UNCHANGED <<fwd, shp, tst, trn>>

\* sigma * delta, a number m * 10^e
SigmaDelta(sigma, delta) == [m |-> RMul(sigma, delta.m), e |-> delta.e]

\* The values 1 - torch.exp(-x) can take: 0 at x = 0, in (0,1] for x > 0
\* (1 when exp underflows, as it does against the 1e10 sentinel), negative
\* for x < 0.
OneMinusExpNeg(x) ==
    IF x.m[1] = 0 THEN {Zero}
    ELSE IF x.m[1] > 0 THEN {Norm(1, 3), Norm(1, 2), One}
    ELSE {Norm(-1, 3), Norm(-1, 2), Norm(-1, 1)}

\* the sequences whose i-th entry is drawn from the i-th set
RECURSIVE SeqsOf(_)
SeqsOf(sets) ==
    IF sets = <<>> THEN {<<>>}
    ELSE {<<a>> \o r : a \in sets[1], r \in SeqsOf(Tail(sets))}

\* torch.cumprod(alphas, 1)
CumProd(s) == [i \in 1..Len(s) |-> RProd(SubSeq(s, 1, i))]

\* the cumulative product itself, not shifted by one
TransmittanceUnshifted(alphas) == CumProd(alphas)

\* lines 110-112: ones, then the cumulative product without its last entry
compute_accumulated_transmittance(alphas) ==
    <<One>> \o SubSeq(CumProd(alphas), 1, Len(alphas) - 1)

\* 1 - alpha
Complement(alpha) == [i \in 1..Len(alpha) |-> RSub(One, alpha[i])]

\* weights taken as alpha alone, the transmittance left out
WeightsAlphaOnly(alpha) == alpha

\* line 156: weights = compute_accumulated_transmittance(1 - alpha) * alpha
Weights(alpha) ==
    LET tr == compute_accumulated_transmittance(Complement(alpha))
    IN [i \in 1..Len(alpha) |-> RMul(tr[i], alpha[i])]

\* line 159: c = (weights * colors).sum(dim=1), one value per channel
WeightedColor(weights, colors) ==
    [k \in 1..3 |->
        RSum([i \in 1..Len(weights) |-> RMul(weights[i], colors[i][k])])]

\* the weighted colour returned as it is, no background added
NoBackground(c, weight_sum) == c

\* line 163: c + 1 - weight_sum
WhiteBackground(c, weight_sum) ==
    [k \in 1..3 |-> RSub(RAdd(c[k], One), weight_sum)]

\* lines 155-163
Composite ==
    /\ ray.pc = "queried"
    /\ \E alpha \in SeqsOf([i \in 1..ray.nb_bins |->
               OneMinusExpNeg(SigmaDelta(ray.sigma[i], ray.delta[i]))]) :
            LET weights == Weights(alpha)
                c == WeightedColor(weights, ray.colors)
                weight_sum == RSum(weights)
            IN ray' = [pc |-> "done", hn |-> ray.hn, hf |-> ray.hf,
                       nb_bins |-> ray.nb_bins, u |-> ray.u, t |-> ray.t,
                       delta |-> ray.delta, sigma |-> ray.sigma,
                       colors |-> ray.colors, alpha |-> alpha,
                       transmittance |->
                           compute_accumulated_transmittance(Complement(alpha)),
                       weights |-> weights, c |-> c,
                       weight_sum |-> weight_sum,
                       pixel |-> WhiteBackground(c, weight_sum)]
    /\ UNCHANGED <<fwd, shp, tst, trn>>

\* the call of line 212: hn=2, hf=6
RenderInit ==
    /\ ray \in {RayStart(MainHn, MainHf, n) : n \in 1..MaxBins}
    /\ fwd = Idle /\ shp = Idle /\ tst = Idle /\ trn = Idle

RenderNext == Sample \/ Query \/ Composite

RenderSpec == RenderInit /\ [][RenderNext]_vars

(***************************************************************************)
(* NerfModel.forward, lines 85-92.  The layers' parameters are fixed but   *)
(* unknown: a layer applied to a row is the term [op, arg], so two outputs *)
(* are equal iff they are computed the same way from the same inputs.      *)
(* A batch is a sequence of rows; every layer acts row by row.             *)
(***************************************************************************)
Points == {"x0", "x1"}
Directions == {"d0", "d1"}

Term(op, arg) == [op |-> op, arg |-> arg]

RECURSIVE Pow2(_)
Pow2(j) == IF j = 0 THEN 1 ELSE 2 * Pow2(j - 1)

\* lines 69-73: out = [x], then sin(2^j x), cos(2^j x) for j in range(L)
positional_encoding(x, L) ==
    [i \in 1..Len(x) |->
        [k \in 1..(1 + 2 * L) |->
            IF k = 1 THEN [f |-> "id", freq |-> 1, x |-> x[i]]
            ELSE IF k % 2 = 0
                 THEN [f |-> "sin", freq |-> Pow2((k - 2) \div 2), x |-> x[i]]
                 ELSE [f |-> "cos", freq |-> Pow2((k - 3) \div 2), x |-> x[i]]]]

Layer(op, batch) == [i \in 1..Len(batch) |-> Term(op, batch[i])]

\* torch.cat((a, b), dim=1): the batches must have the same number of rows
CatRowsAgree(a, b) == Len(a) = Len(b)
CatDim1(a, b) == [i \in 1..Len(a) |-> <<a[i], b[i]>>]

Raised == [status |-> "error"]

\* a network in which the direction encoding already enters block2
ForwardDirectionEarly(o, d) ==
    LET emb_x == positional_encoding(o, PosEncCoordDim)
        emb_d == positional_encoding(d, PosEncDirectionDim)
        features == Layer("block1", emb_x)
    IN IF ~CatRowsAgree(features, emb_d) THEN Raised
       ELSE LET tmp == Layer("block2",
                             CatDim1(CatDim1(features, emb_x), emb_d))
                features2 == Layer("tmp[:, :-1]", tmp)
                sigma == Layer("relu", Layer("tmp[:, -1]", tmp))
                features3 == Layer("block3", CatDim1(features2, emb_d))
            IN [status |-> "ok", c |-> Layer("block4", features3),
                sigma |-> sigma]

\* lines 85-92
Forward(o, d) ==
    LET emb_x == positional_encoding(o, PosEncCoordDim)
        emb_d == positional_encoding(d, PosEncDirectionDim)
        features == Layer("block1", emb_x)
        tmp == Layer("block2", CatDim1(features, emb_x))
        features2 == Layer("tmp[:, :-1]", tmp)
        sigma == Layer("relu", Layer("tmp[:, -1]", tmp))
    IN IF ~CatRowsAgree(features2, emb_d) THEN Raised
       ELSE LET features3 == Layer("block3", CatDim1(features2, emb_d))
            IN [status |-> "ok", c |-> Layer("block4", features3),
                sigma |-> sigma]

Batches(S) == UNION {[1..n -> S] : n \in 1..MaxFwdRows}

\* a call nerf_model(o, d); the model's parameters are the same in all calls
ForwardCall ==
    /\ fwd.pc = "ready"
    /\ Len(fwd.calls) < 2
    /\ \E o \in Batches(Points), d \in Batches(Directions) :
         fwd' = [pc |-> "ready",
                 calls |-> Append(fwd.calls,
                                  [o |-> o, d |-> d, out |-> Forward(o, d)])]
    /\ UNCHANGED <<ray, shp, tst, trn>>

ForwardInit ==
    /\ fwd = [pc |-> "ready", calls |-> <<>>]
    /\ ray = Idle /\ shp = Idle /\ tst = Idle /\ trn = Idle

ForwardNext == ForwardCall

ForwardSpec == ForwardInit /\ [][ForwardNext]_vars

(***************************************************************************)
(* render_rays, lines 127-163, on tensor shapes.  A shape is a sequence of *)
(* sizes; Err is the shape of an operation that raised.                    *)
(***************************************************************************)
Err == <<-1>>

Max(a, b) == IF a < b THEN b ELSE a

RECURSIVE Numel(_)
Numel(s) == IF s = <<>> THEN 1 ELSE s[1] * Numel(Tail(s))

\* s with sizes of 1 put in front until it has n dimensions
PadLeft(s, n) == [i \in 1..n |-> IF i <= n - Len(s) THEN 1 ELSE s[i - (n - Len(s))]]

\* the shape of a binary element-wise operation: sizes are aligned from the
\* right and must be equal unless one of them is 1
Broadcast(a, b) ==
    IF a = Err \/ b = Err THEN Err
    ELSE LET n == Max(Len(a), Len(b))
             pa == PadLeft(a, n)
             pb == PadLeft(b, n)
         IN IF \A i \in 1..n : pa[i] = pb[i] \/ pa[i] = 1 \/ pb[i] = 1
            THEN [i \in 1..n |-> IF pa[i] = 1 THEN pb[i] ELSE pa[i]]
            ELSE Err

\* Tensor.expand(*target): only sizes of 1, and new leading dimensions, grow
Expand(s, target) ==
    IF s = Err \/ Len(target) < Len(s) THEN Err
    ELSE LET ps == PadLeft(s, Len(target))
         IN IF \A i \in 1..Len(target) :
                   \/ ps[i] = target[i]
                   \/ ps[i] = 1 /\ i > Len(target) - Len(s)
                   \/ i <= Len(target) - Len(s)
            THEN target ELSE Err

\* torch.cat((a, b), dim): every other size must agree
Cat(a, b, dim) ==
    IF a = Err \/ b = Err \/ Len(a) # Len(b) THEN Err
    ELSE IF \A i \in 1..Len(a) : i = dim \/ a[i] = b[i]
         THEN [a EXCEPT ![dim] = a[dim] + b[dim]]
         ELSE Err

\* Tensor.unsqueeze(dim), dim counted from 1
Unsqueeze(s, dim) ==
    IF s = Err THEN Err
    ELSE SubSeq(s, 1, dim - 1) \o <<1>> \o SubSeq(s, dim, Len(s))

\* Tensor.reshape(target): the number of elements must not change
Reshape(s, target) ==
    IF s = Err \/ target = Err THEN Err
    ELSE IF Numel(s) = Numel(target) THEN target ELSE Err

\* Tensor.reshape(-1, 3)
ReshapeRowsOf3(s) ==
    IF s = Err \/ Numel(s) % 3 # 0 THEN Err ELSE <<Numel(s) \div 3, 3>>

\* the slice [:, :-1] or [:, 1:] of a two-dimensional tensor
DropOneColumn(s) == IF s = Err THEN Err ELSE <<s[1], Max(s[2] - 1, 0)>>

\* Tensor.sum(dim)
SumDim(s, dim) ==
    IF s = Err THEN Err ELSE SubSeq(s, 1, dim - 1) \o SubSeq(s, dim + 1, Len(s))

\* nerf_model(x, d) on shapes: forward is run on batches of those many rows
ForwardShapes(x, d) ==
    IF x = Err \/ d = Err THEN [c |-> Err, sigma |-> Err]
    ELSE LET out == Forward([i \in 1..x[1] |-> "x0"], [i \in 1..d[1] |-> "d0"])
         IN IF out.status = "ok"
            THEN [c |-> <<Len(out.c), 3>>, sigma |-> <<Len(out.sigma)>>]
            ELSE [c |-> Err, sigma |-> Err]

\* lines 110-112 on shapes
TransmittanceShape(alphas) ==
    IF alphas = Err THEN Err
    ELSE Cat(<<alphas[1], 1>>, DropOneColumn(alphas), 2)

\* the shape render_rays returns for ray_origins of n rows, ray_directions of
\* m rows and nb samples per ray, or Err
RenderRaysShape(n, m, nb) ==
    LET ray_origins == <<n, 3>>
        ray_directions == <<m, 3>>
        t0 == Expand(<<nb>>, <<n, nb>>)                               \* 127
        mid == Broadcast(DropOneColumn(t0), DropOneColumn(t0))        \* 133
        lower == Cat(<<n, IF nb = 0 THEN 0 ELSE 1>>, mid, 2)          \* 134
        upper == Cat(mid, <<n, IF nb = 0 THEN 0 ELSE 1>>, 2)          \* 135
        u == t0                                                       \* 136
        t == Broadcast(lower, Broadcast(Broadcast(upper, lower), u))  \* 137
        delta == Cat(Broadcast(DropOneColumn(t), DropOneColumn(t)),
                     Expand(<<1>>, <<n, 1>>), 2)                      \* 138
        x == Broadcast(Unsqueeze(ray_origins, 2),
                       Broadcast(Unsqueeze(t, 3),
                                 Unsqueeze(ray_directions, 2)))       \* 143
        dirs == LET e == Expand(ray_directions, <<nb, m, 3>>)
                IN IF e = Err THEN Err ELSE <<e[2], e[1], e[3]>>      \* 146
        out == ForwardShapes(ReshapeRowsOf3(x), ReshapeRowsOf3(dirs)) \* 149
        colors == Reshape(out.c, x)                                   \* 150
        sigma == IF x = Err THEN Err
                 ELSE Reshape(out.sigma, SubSeq(x, 1, Len(x) - 1))    \* 151
        alpha == Broadcast(sigma, delta)                              \* 155
        weights == Broadcast(Unsqueeze(TransmittanceShape(alpha), 3),
                             Unsqueeze(alpha, 3))                     \* 156
        c == SumDim(Broadcast(weights, colors), 2)                    \* 159
        weight_sum == SumDim(SumDim(weights, 3), 2)                   \* 160
    IN IF weight_sum = Err THEN Err
       ELSE Broadcast(c, Unsqueeze(weight_sum, 2))                    \* 163

\* a call render_rays(nerf_model, ray_origins, ray_directions, nb_bins=nb)
RenderRaysCall ==
    /\ shp.pc = "ready"
    /\ LET out == RenderRaysShape(shp.ray_origins, shp.ray_directions,
                                  shp.nb_bins)
       IN shp' = [shp EXCEPT !.pc = IF out = Err THEN "raised" ELSE "returned",
                             !.out = out]
    /\ UNCHANGED <<ray, fwd, tst, trn>>

ShapeInit ==
    /\ shp \in {[pc |-> "ready", ray_origins |-> n, ray_directions |-> m,
                 nb_bins |-> nb, out |-> <<>>] :
                  n \in 1..MaxRows, m \in 1..MaxRows, nb \in 1..MaxBins}
    /\ ray = Idle /\ fwd = Idle /\ tst = Idle /\ trn = Idle

ShapeNext == RenderRaysCall

ShapeSpec == ShapeInit /\ [][ShapeNext]_vars

(***************************************************************************)
(* test(), lines 239-254.  Row k of the dataset (counted from 0) is ray k; *)
(* the colour render_rays returns for it is the term [ray |-> k].          *)
(***************************************************************************)
Min(a, b) == IF a < b THEN a ELSE b

\* s[a:b] of Python, a and b counted from 0 and clipped to the length of s
Slice(s, a, b) == SubSeq(s, a + 1, Min(b, Len(s)))

\* a dataset of MaxImages images of h*w rows each
Dataset(h, w) == [k \in 1..(MaxImages * h * w) |-> k - 1]

\* int(np.ceil(H / chunk_size))
NumChunks(h, chunk_size) == (h + chunk_size - 1) \div chunk_size

\* chunks cut every chunk_size rays instead of every chunk_size rows of W rays
ChunkOfRays(rays, i, w, chunk_size) ==
    Slice(rays, i * chunk_size, (i + 1) * chunk_size)

\* lines 245-246: rays[i * W * chunk_size: (i + 1) * W * chunk_size]
Chunk(rays, i, w, chunk_size) ==
    Slice(rays, i * w * chunk_size, (i + 1) * w * chunk_size)

\* render_rays on a chunk: one colour per ray, in the order of the rays
RenderChunk(rays) == [k \in 1..Len(rays) |-> [ray |-> rays[k]]]

RECURSIVE Concat(_)
Concat(chunks) ==
    IF chunks = <<>> THEN <<>> ELSE chunks[1] \o Concat(Tail(chunks))

\* lines 239-242
TestSelectImage ==
    /\ tst.pc = "start"
    /\ tst' = [tst EXCEPT
                 !.pc = "chunks",
                 !.rays = Slice(Dataset(tst.H, tst.W),
                                tst.img_index * tst.H * tst.W,
                                (tst.img_index + 1) * tst.H * tst.W),
                 !.i = 0,
                 !.data = <<>>]
    /\ UNCHANGED <<ray, fwd, shp, trn>>

\* lines 243-248: one iteration of the loop over chunks
TestChunk ==
    /\ tst.pc = "chunks"
    /\ tst.i < NumChunks(tst.H, tst.chunk_size)
    /\ tst' = [tst EXCEPT
                 !.i = tst.i + 1,
                 !.data = Append(tst.data,
                     RenderChunk(Chunk(tst.rays, tst.i, tst.W, tst.chunk_size)))]
    /\ UNCHANGED <<ray, fwd, shp, trn>>

\* line 249: torch.cat(data).reshape(H, W, 3), which raises unless the chunks
\* hold H*W colours
TestAssemble ==
    /\ tst.pc = "chunks"
    /\ tst.i = NumChunks(tst.H, tst.chunk_size)
    /\ LET flat == Concat(tst.data)
       IN IF Len(flat) = tst.H * tst.W
          THEN tst' = [tst EXCEPT
                         !.pc = "assembled",
                         !.img = [r \in 1..tst.H |->
                                    [c \in 1..tst.W |->
                                        flat[(r - 1) * tst.W + c]]]]
          ELSE tst' = [tst EXCEPT !.pc = "raised"]
    /\ UNCHANGED <<ray, fwd, shp, trn>>

\* lines 251-254: the figure is written
TestSave ==
    /\ tst.pc = "assembled"
    /\ tst' = [tst EXCEPT !.pc = "returned"]
    /\ UNCHANGED <<ray, fwd, shp, trn>>

\* line 253: plt.savefig raises (the file cannot be written)
TestSaveFails ==
    /\ tst.pc = "assembled"
    /\ tst' = [tst EXCEPT !.pc = "raised"]
    /\ UNCHANGED <<ray, fwd, shp, trn>>

TestInit ==
    /\ tst \in {[pc |-> "start", H |-> h, W |-> w, chunk_size |-> cs,
                 img_index |-> n, rays |-> <<>>, i |-> 0, data |-> <<>>,
                 img |-> <<>>] :
                  h \in 1..MaxH, w \in 1..MaxW, cs \in 1..MaxChunk,
                  n \in 0..(MaxImages - 1)}
    /\ ray = Idle /\ fwd = Idle /\ shp = Idle /\ trn = Idle

TestNext ==
    \/ TestSelectImage
    \/ TestChunk
    \/ TestAssemble
    \/ TestSave
    \/ TestSaveFails

TestSpec == TestInit /\ [][TestNext]_vars

(***************************************************************************)
(* train(), lines 175-193, with the optimizer and the schedule of lines    *)
(* 209-210.                                                                *)
(***************************************************************************)
\* torch.optim.Adam(model.parameters(), lr=5e-4)
InitialLr == Norm(5, 10000)

\* MultiStepLR(model_optimizer, milestones=[2, 4, 8], gamma=0.5)
Milestones == {2, 4, 8}
Gamma == Norm(1, 2)

\* a schedule that decays one epoch late: the epoch count is compared with
\* the milestones before it is advanced
SchedulerStepLate(sched) ==
    [last_epoch |-> sched.last_epoch + 1,
     lr |-> IF sched.last_epoch \in Milestones
            THEN RMul(sched.lr, Gamma) ELSE sched.lr]

\* scheduler.step() of MultiStepLR: the epoch count advances; at a milestone
\* the learning rate is multiplied by gamma
SchedulerStep(sched) ==
    [last_epoch |-> sched.last_epoch + 1,
     lr |-> IF (sched.last_epoch + 1) \in Milestones
            THEN RMul(sched.lr, Gamma) ELSE sched.lr]

\* lines 178-188: one mini-batch: render, loss, zero_grad, backward,
\* optimizer.step() at the current learning rate, training_loss.append
TrainBatch ==
    /\ trn.pc = "batches"
    /\ trn.batch < NbBatches
    /\ trn' = [trn EXCEPT
                 !.batch = trn.batch + 1,
                 !.params = trn.params + 1,
                 !.opt_steps = Append(trn.opt_steps,
                                      [epoch |-> trn.epoch, lr |-> trn.sched.lr]),
                 !.training_loss = Append(trn.training_loss,
                                          [epoch |-> trn.epoch,
                                           batch |-> trn.batch])]
    /\ UNCHANGED <<ray, fwd, shp, tst>>

\* line 189: scheduler.step(), after the loop over the data loader
TrainSchedulerStep ==
    /\ trn.pc = "batches"
    /\ trn.batch = NbBatches
    /\ trn' = [trn EXCEPT !.pc = "eval",
                          !.sched = SchedulerStep(trn.sched),
                          !.img_index = 0]
    /\ UNCHANGED <<ray, fwd, shp, tst>>

\* line 192: test(...) renders and writes image img_index, and returns
TrainTestImage ==
    /\ trn.pc = "eval"
    /\ trn.img_index < NbTestImages
    /\ trn' = [trn EXCEPT !.img_index = trn.img_index + 1]
    /\ UNCHANGED <<ray, fwd, shp, tst>>

\* line 192 with line 253 raising: nothing in test() or train() catches the
\* exception, so train() ends with it
TrainTestImageFails ==
    /\ trn.pc = "eval"
    /\ trn.img_index < NbTestImages
    /\ trn' = [trn EXCEPT !.pc = "raised",
                          !.save_failures = trn.save_failures + 1]
    /\ UNCHANGED <<ray, fwd, shp, tst>>

\* lines 176 and 193: the next epoch, or return training_loss
TrainNextEpoch ==
    /\ trn.pc = "eval"
    /\ trn.img_index = NbTestImages
    /\ trn' = [trn EXCEPT
                 !.epoch = trn.epoch + 1,
                 !.batch = 0,
                 !.pc = IF trn.epoch + 1 = NbEpochs THEN "returned"
                        ELSE "batches"]
    /\ UNCHANGED <<ray, fwd, shp, tst>>

TrainInit ==
    /\ trn = [pc |-> "batches", epoch |-> 0, batch |-> 0, img_index |-> 0,
              training_loss |-> <<>>, params |-> 0, opt_steps |-> <<>>,
              sched |-> [last_epoch |-> 0, lr |-> InitialLr],
              save_failures |-> 0]
    /\ ray = Idle /\ fwd = Idle /\ shp = Idle /\ tst = Idle

TrainNext ==
    \/ TrainBatch
    \/ TrainSchedulerStep
    \/ TrainTestImage
    \/ TrainTestImageFails
    \/ TrainNextEpoch

TrainSpec == TrainInit /\ [][TrainNext]_vars

(***************************************************************************)
(* Claims about the sampler.                                               *)
(***************************************************************************)
Sampled == ray.pc \in {"sampled", "queried", "done"}

BaseDepths == Linspace(ray.hn, ray.hf, ray.nb_bins)

\* the deltas of a ray that are not the 1e10 sentinel, in order
NonSentinel(delta) ==
    LET keep == SelectSeq(delta, LAMBDA x : x.e = 0)
    IN [i \in 1..Len(keep) |-> keep[i].m]

C4_DeltasSumToFarMinusNear ==
    Sampled => RSum(NonSentinel(ray.delta)) = RSub(ray.hf, ray.hn)

\* C4 amended: the non-sentinel deltas of a ray sum to last depth - first
\* depth, which is below far - near and above
\* far - near - (far - near) / (nb_bins - 1).
C4_DeltasSumToDepthSpan ==
    Sampled =>
        LET total == RSum(NonSentinel(ray.delta))
            range == RSub(ray.hf, ray.hn)
            step == RMul(range, Norm(1, ray.nb_bins - 1))
        IN /\ Len(NonSentinel(ray.delta)) = ray.nb_bins - 1
           /\ ray.delta[ray.nb_bins] = Sentinel
           /\ total = RSub(ray.t[ray.nb_bins], ray.t[1])
           /\ RLt(total, range)
           /\ RLt(RSub(range, step), total)

\* a jittered ray of three bins
C4_Witness ==
    /\ ray.pc = "sampled"
    /\ ray.nb_bins = 3
    /\ ray.u[1] # Zero
    /\ ray.u[3] = Zero

(***************************************************************************)
(* Claims about the compositor.                                            *)
(***************************************************************************)
Composited == ray.pc = "done"

\* C10: the transmittance sequence starts at 1, its entry i is the product
\* of (1 - alpha_j) over the samples j before i, and it is non-increasing.
C10_TransmittanceShiftedProduct ==
    Composited =>
        /\ Len(ray.transmittance) = ray.nb_bins
        /\ ray.transmittance[1] = One
        /\ \A i \in 1..ray.nb_bins :
             ray.transmittance[i] =
                 RProd([j \in 1..(i - 1) |-> RSub(One, ray.alpha[j])])
        /\ \A i \in 1..(ray.nb_bins - 1) :
             RLe(ray.transmittance[i + 1], ray.transmittance[i])

\* three samples, the first two partly opaque
C10_Witness ==
    /\ Composited
    /\ ray.nb_bins = 3
    /\ ray.alpha[1] = Norm(1, 2)
    /\ ray.alpha[2] = Norm(1, 2)
    /\ ray.transmittance[3] = Norm(1, 4)

\* C1: the accumulated opacity weight_sum of a ray lies in [0,1] and equals
\* 1 - prod_i (1 - alpha_i).
C1_WeightSumIsOpacity ==
    Composited =>
        /\ \A i \in 1..ray.nb_bins :
             RLe(Zero, ray.alpha[i]) /\ RLe(ray.alpha[i], One)
        /\ RLe(Zero, ray.weight_sum)
        /\ RLe(ray.weight_sum, One)
        /\ ray.weight_sum =
               RSub(One, RProd([i \in 1..ray.nb_bins |-> RSub(One, ray.alpha[i])]))

\* three samples, all partly opaque: weight_sum = 1 - 1/8
C1_Witness ==
    /\ Composited
    /\ ray.nb_bins = 3
    /\ \A i \in 1..3 : ray.alpha[i] = Norm(1, 2)
    /\ ray.weight_sum = Norm(7, 8)

\* C2: each channel of the returned colour lies in [1 - weight_sum, 1], hence
\* in [0,1]; when all densities are 0 the colour is white.
C2_PixelInRange ==
    Composited =>
        /\ \A k \in 1..3 :
             /\ RLe(RSub(One, ray.weight_sum), ray.pixel[k])
             /\ RLe(ray.pixel[k], One)
             /\ RLe(Zero, ray.pixel[k])
             /\ ray.pixel[k] =
                    RAdd(RSum([i \in 1..ray.nb_bins |->
                                  RMul(ray.weights[i], ray.colors[i][k])]),
                         RSub(One, ray.weight_sum))
        /\ (\A i \in 1..ray.nb_bins : ray.sigma[i] = Zero) =>
               ray.pixel = <<One, One, One>>

\* a partly opaque coloured ray: the channels differ and none is white's
C2_Witness ==
    /\ Composited
    /\ ray.nb_bins = 3
    /\ ray.weight_sum = Norm(7, 8)
    /\ ray.pixel[1] = One
    /\ RLt(ray.pixel[3], ray.pixel[2])
    /\ RLt(ray.pixel[2], ray.pixel[1])

(***************************************************************************)
(* Claims about the network.                                               *)
(***************************************************************************)
\* C5: two calls of forward with the same parameters and the same position
\* batch return the same density, sample by sample, whatever the direction
\* batches are.
C5_DensityIgnoresDirection ==
    fwd.pc = "ready" =>
        \A a, b \in 1..Len(fwd.calls) :
            LET ca == fwd.calls[a]
                cb == fwd.calls[b]
            IN (ca.o = cb.o /\ ca.out.status = "ok" /\ cb.out.status = "ok") =>
                   /\ Len(ca.out.sigma) = Len(ca.o)
                   /\ \A i \in 1..Len(ca.o) : ca.out.sigma[i] = cb.out.sigma[i]

\* two successful calls on the same two positions whose directions differ in
\* every row, and whose colours differ
C5_Witness ==
    /\ fwd.pc = "ready"
    /\ Len(fwd.calls) = 2
    /\ fwd.calls[1].o = fwd.calls[2].o
    /\ Len(fwd.calls[1].o) = 2
    /\ fwd.calls[1].out.status = "ok"
    /\ fwd.calls[2].out.status = "ok"
    /\ \A i \in 1..2 : fwd.calls[1].d[i] # fwd.calls[2].d[i]
    /\ fwd.calls[1].out.c # fwd.calls[2].out.c

(***************************************************************************)
(* Claims about batch shapes.                                              *)
(***************************************************************************)
\* C7: a render call whose origin batch and direction batch have different
\* numbers of rows fails with an error and returns no colours.
C7_RowMismatchFails ==
    (shp.pc \in {"returned", "raised"}
        /\ shp.ray_origins # shp.ray_directions) => shp.pc = "raised"

(***************************************************************************)
(* Claims about the chunked renderer.                                      *)
(***************************************************************************)
Assembled == tst.pc \in {"assembled", "returned"}

\* C6: test() renders the H*W rays of image img_index in ceil(H/chunk_size)
\* contiguous non-empty chunks of at most chunk_size*W rays, in increasing
\* order, every ray exactly once, and pixel k of the raster is the render of
\* ray k of the image.
C6_ChunksCoverImage ==
    /\ tst.pc = "chunks" => tst.i = Len(tst.data)
    /\ tst.pc \in {"chunks", "assembled", "returned"} =>
         /\ \A j \in 1..Len(tst.data) :
              /\ Len(tst.data[j]) >= 1
              /\ Len(tst.data[j]) <= tst.chunk_size * tst.W
         /\ \A k \in 1..Len(Concat(tst.data)) :
              Concat(tst.data)[k].ray = tst.img_index * tst.H * tst.W + k - 1
    /\ (tst.pc = "chunks" /\ tst.i = NumChunks(tst.H, tst.chunk_size)) =>
         Len(Concat(tst.data)) = tst.H * tst.W
    /\ Assembled =>
         /\ Len(tst.data) * tst.chunk_size >= tst.H
         /\ (Len(tst.data) - 1) * tst.chunk_size < tst.H
         /\ Len(Concat(tst.data)) = tst.H * tst.W
         /\ Len(tst.img) = tst.H
         /\ \A r \in 1..tst.H :
              /\ Len(tst.img[r]) = tst.W
              /\ \A c \in 1..tst.W :
                   tst.img[r][c].ray =
                       tst.img_index * tst.H * tst.W + (r - 1) * tst.W + (c - 1)

\* the second image, three rows of two pixels in chunks of two rows: the
\* last chunk is short
C6_Witness ==
    /\ tst.pc = "returned"
    /\ tst.H = 3 /\ tst.W = 2 /\ tst.chunk_size = 2 /\ tst.img_index = 1
    /\ Len(tst.data) = 2
    /\ Len(tst.data[2]) = 2

(***************************************************************************)
(* Claims about the training loop.                                         *)
(***************************************************************************)
\* the number of milestones m with m <= e
MilestonesUpTo(e) == Cardinality({m \in Milestones : m <= e})

RECURSIVE RPow(_, _)
RPow(x, k) == IF k = 0 THEN One ELSE RMul(x, RPow(x, k - 1))

\* C9: the schedule is advanced once per epoch, after that epoch's updates
\* and never between mini-batches; every update of epoch e uses the learning
\* rate lr0 * gamma^k, k the number of milestones m <= e, and the rate
\* changes only at milestone epochs.
C9_ScheduleOncePerEpoch ==
    trn.pc # "idle" =>
        /\ trn.pc = "batches" => trn.sched.last_epoch = trn.epoch
        /\ trn.pc = "eval" => trn.sched.last_epoch = trn.epoch + 1
        /\ trn.pc = "returned" => trn.sched.last_epoch = NbEpochs
        /\ \A k \in 1..Len(trn.opt_steps) :
             trn.opt_steps[k].lr =
                 RMul(InitialLr, RPow(Gamma, MilestonesUpTo(trn.opt_steps[k].epoch)))
        /\ \A k \in 1..(Len(trn.opt_steps) - 1) :
             trn.opt_steps[k].lr # trn.opt_steps[k + 1].lr =>
                 /\ trn.opt_steps[k + 1].epoch = trn.opt_steps[k].epoch + 1
                 /\ trn.opt_steps[k + 1].epoch \in Milestones

\* the run has returned: the updates of epochs 2, 4 and 8 used a halved rate
C9_Witness ==
    /\ trn.pc = "returned"
    /\ Len(trn.opt_steps) = NbEpochs * NbBatches
    /\ trn.opt_steps[1].lr = InitialLr
    /\ trn.opt_steps[2 * NbBatches].lr = InitialLr
    /\ trn.opt_steps[2 * NbBatches + 1].lr = RMul(InitialLr, Gamma)
    /\ trn.opt_steps[NbEpochs * NbBatches].lr = RMul(InitialLr, Norm(1, 8))

\* C8: a failure to write an evaluation image does not end train(): it goes
\* on to perform every update of the remaining epochs and returns the full
\* loss list.
C8_SaveFailureNonFatal ==
    trn.save_failures > 0 =>
        /\ trn.pc \in {"batches", "eval", "returned"}
        /\ trn.pc = "returned" =>
               Len(trn.training_loss) = NbEpochs * NbBatches

====
